---- MODULE Spec2Model ----
(***************************************************************************)
(* A model of the mcp-todo server (src/server.py): the per-session todo    *)
(* store _session_todos, the write_todos tool handler, the _get_todos      *)
(* helper, the session resolver _get_session_key and the formatter         *)
(* _format_todos.                                                          *)
(*                                                                         *)
(* Python values are modelled as tagged records so that None, the empty    *)
(* string, a non-empty string and a dict stay distinguishable, and so      *)
(* that Python truthiness (`not content`, `a or b`) and isinstance are     *)
(* computed rather than assumed.                                           *)
(*                                                                         *)
(* A returned text is modelled as the sequence of its lines (the text      *)
(* split at "\n").                                                         *)
(***************************************************************************)
EXTENDS Integers, Sequences, FiniteSets, TLC

VARIABLES
    _session_todos,   \* server.py:15  dict: session key -> list of todo dicts
    pc,               \* position of each call
    op,               \* which operation each call runs: "write" or "get"
    ctx,              \* write_todos parameter ctx (session_id, client_id)
    todos,            \* write_todos parameter todos (raw input list)
    session_key,      \* local session_key (write_todos) / parameter (_get_todos)
    validated_todos,  \* local validated_todos of write_todos
    result,           \* value returned by the call
    running,          \* the call that currently holds the event loop
    applied,          \* history: session key -> raw list of the latest write applied
    overlap           \* history: the calls that were in flight when this one arrived

vars == <<_session_todos, pc, op, ctx, todos, session_key, validated_todos,
          result, running, applied, overlap>>

----------------------------------------------------------------------------
(* Bounds *)

\* longest raw list handed to a single call in SpecFn
MaxLen == 4

\* longest raw list handed to a call in Spec
MaxTodos == 1

----------------------------------------------------------------------------
(* Python values *)

PyNone == [type |-> "NoneType", val |-> ""]

Str(s) == [type |-> "str", val |-> s]

Dict(f) == [type |-> "dict", val |-> f]

\* bool(v): None, "" and {} are falsy
Truthy(v) ==
    CASE v.type = "NoneType" -> FALSE
      [] v.type = "str"      -> v.val # ""
      [] v.type = "dict"     -> DOMAIN v.val # {}

\* a or b
PyOr(a, b) == IF Truthy(a) THEN a ELSE b

\* isinstance(v, dict)
IsDict(v) == v.type = "dict"

\* d.get(k, default)
Get(d, k, default) == IF k \in DOMAIN d THEN d[k] ELSE default

\* str(v), as an f-string renders it
PyStr(v) == IF v.type = "NoneType" THEN "None" ELSE v.val

----------------------------------------------------------------------------
(* _get_session_key, server.py:18-21 *)

\* faulty variant: `is not None` tests in place of truthiness
_get_session_key_first_set(c) ==
    IF c.session_id # PyNone THEN c.session_id.val
    ELSE IF c.client_id # PyNone THEN c.client_id.val
    ELSE "default"

\* ctx.session_id or ctx.client_id or "default"
_get_session_key(c) ==
    PyOr(PyOr(c.session_id, c.client_id), Str("default")).val

----------------------------------------------------------------------------
(* write_todos, the validation loop, server.py:75-94 *)

ValidStatuses == {Str("pending"), Str("in_progress"), Str("completed")}

\* faulty variant: the entry is kept whatever its content
ValidateEntryKeepEmpty(todo) ==
    IF ~IsDict(todo) THEN <<>>
    ELSE
        LET content == Get(todo.val, "content", Str(""))
            active_form == Get(todo.val, "activeForm", Str(""))
            status == Get(todo.val, "status", Str("pending"))
        IN  <<[content |-> content,
               activeForm |-> PyOr(active_form, content),
               status |-> IF status \notin ValidStatuses
                          THEN Str("pending") ELSE status]>>

\* faulty variant: activeForm and status are stored as given
ValidateEntryNoDefaults(todo) ==
    IF ~IsDict(todo) THEN <<>>
    ELSE
        LET content == Get(todo.val, "content", Str(""))
            active_form == Get(todo.val, "activeForm", Str(""))
            status == Get(todo.val, "status", Str("pending"))
        IN  IF ~Truthy(content) THEN <<>>
            ELSE <<[content |-> content,
                    activeForm |-> active_form,
                    status |-> status]>>

\* One pass of the loop body (lines 77-94): what the entry appends to
\* validated_todos, <<>> when the body ends in `continue`.
ValidateEntry(todo) ==
    IF ~IsDict(todo) THEN <<>>
    ELSE
        LET content == Get(todo.val, "content", Str(""))
            active_form == Get(todo.val, "activeForm", Str(""))
            status == Get(todo.val, "status", Str("pending"))
        IN  IF ~Truthy(content) THEN <<>>
            ELSE <<[content |-> content,
                    activeForm |-> PyOr(active_form, content),
                    status |-> IF status \notin ValidStatuses
                               THEN Str("pending") ELSE status]>>

RECURSIVE ValidateLoop(_, _, _)
\* for todo in todos: ... validated_todos.append(...)
ValidateLoop(raw, i, acc) ==
    IF i > Len(raw) THEN acc
    ELSE ValidateLoop(raw, i + 1, acc \o ValidateEntry(raw[i]))

RECURSIVE ValidateLoopBreak(_, _, _)
\* the loop with `break` where the code has `continue`
ValidateLoopBreak(raw, i, acc) ==
    IF i > Len(raw) THEN acc
    ELSE IF ValidateEntry(raw[i]) = <<>> THEN acc
    ELSE ValidateLoopBreak(raw, i + 1, acc \o ValidateEntry(raw[i]))

\* faulty variant: the loop stops at the first entry it would skip
ValidateTodosBreak(raw) == ValidateLoopBreak(raw, 1, <<>>)

\* lines 75-94: validated_todos as the loop leaves it
ValidateTodos(raw) == ValidateLoop(raw, 1, <<>>)

----------------------------------------------------------------------------
(* _format_todos, server.py:31-58 *)

StatusIcon(status) ==
    CASE status = Str("pending")     -> "[ ]"
      [] status = Str("in_progress") -> "[~]"
      [] status = Str("completed")   -> "[x]"
      [] OTHER                       -> "[ ]"

\* lines 37-51: the numbered line of the i-th todo
TodoLine(i, todo) ==
    LET status_icon == StatusIcon(Get(todo, "status", Str("pending")))
        content == Get(todo, "content", Str(""))
        active_form == Get(todo, "activeForm", Str(""))
        status == Get(todo, "status", Str("pending"))
    IN  IF status = Str("in_progress")
        THEN ToString(i) \o ". " \o status_icon \o " " \o PyStr(active_form)
        ELSE ToString(i) \o ". " \o status_icon \o " " \o PyStr(content)

\* sum(1 for t in todos if t.get("status") == s)
RECURSIVE CountStatus(_, _)
CountStatus(list, s) ==
    IF list = <<>> THEN 0
    ELSE (IF Get(Head(list), "status", PyNone) = Str(s) THEN 1 ELSE 0)
         + CountStatus(Tail(list), s)

\* faulty variant: every todo is counted as pending
SummaryLineAllPending(list) ==
    "Summary: " \o ToString(Len(list)) \o " pending, "
        \o "0 in progress, 0 completed"

\* lines 53-56, the text after the leading "\n"
SummaryLine(list) ==
    "Summary: " \o ToString(CountStatus(list, "pending")) \o " pending, "
        \o ToString(CountStatus(list, "in_progress")) \o " in progress, "
        \o ToString(CountStatus(list, "completed")) \o " completed"

\* the lines of the returned text
_format_todos(list) ==
    IF list = <<>> THEN <<"Todo list is empty.">>
    ELSE <<"Todo List:">>
         \o [i \in 1..Len(list) |-> TodoLine(i, list[i])]
         \o <<"", SummaryLine(list)>>

----------------------------------------------------------------------------
(* The store, server.py:15, 27, 96 *)

\* faulty variant: the new list is appended to the stored one
SetItemMerge(d, k, v) ==
    [x \in DOMAIN d \cup {k} |->
        IF x = k THEN (IF k \in DOMAIN d THEN d[k] ELSE <<>>) \o v ELSE d[x]]

\* faulty variant: the assignment reaches every stored key
SetItemAll(d, k, v) == [x \in DOMAIN d \cup {k} |-> v]

\* d[k] = v
SetItem(d, k, v) == [x \in DOMAIN d \cup {k} |-> IF x = k THEN v ELSE d[x]]

\* faulty variant: the dict is rebound to one holding only the new key
CreateEmptyReset(d, k) == [x \in {k} |-> <<>>]

\* line 27: _session_todos[session_key] = []
CreateEmpty(d, k) == SetItem(d, k, <<>>)

\* line 26: session_key not in _session_todos
KeyMissing(d, k) == k \notin DOMAIN d

----------------------------------------------------------------------------
(* Inputs *)

Tasks == {"t1", "t2"}

NoTask == "none"

OptSessionIds == {PyNone, Str(""), Str("s1")}

OptClientIds == {PyNone, Str(""), Str("c1")}

Contexts == [session_id : OptSessionIds, client_id : OptClientIds]

\* contexts of the calls in Spec: two sessions
CallContexts ==
    {[session_id |-> Str("s1"), client_id |-> PyNone],
     [session_id |-> PyNone, client_id |-> Str("c1")]}

SessionKeys == {_get_session_key(c) : c \in CallContexts}

NoContext == [session_id |-> PyNone, client_id |-> PyNone]

Junk == Str("junk")

EmptyContent ==
    Dict([content |-> Str(""), activeForm |-> Str("x"), status |-> Str("pending")])

TaskA ==
    Dict([content |-> Str("A"), activeForm |-> Str("A"), status |-> Str("pending")])

TaskB == Dict([content |-> Str("B"), activeForm |-> PyNone, status |-> Str("pending")])

TaskC == Dict([content |-> Str("C"), status |-> Str("in_progress")])

TaskD ==
    Dict([content |-> Str("D"), activeForm |-> Str("Doing D"),
          status |-> Str("completed")])

TaskT == Dict([content |-> Str("T"), activeForm |-> Str(""), status |-> Str("bogus")])

NoContent == Dict([activeForm |-> Str("y"), status |-> PyNone])

\* raw entries of the single call in SpecFn
FnEntries == {Junk, EmptyContent, NoContent, TaskA, TaskB, TaskC, TaskD, TaskT}

\* raw entries of the calls in Spec
CallEntries == {EmptyContent, TaskT, TaskC}

RawLists(E, n) == UNION {[1..k -> E] : k \in 0..n}

----------------------------------------------------------------------------
(* Scheduling: write_todos is a coroutine with no await (server.py:68-97) *)
(* and _get_todos is a plain function (server.py:24-28): once a call has  *)
(* the event loop it keeps it until it returns.                           *)

\* faulty variant: a call may be preempted between any two statements
MayStepPreempt(p) == TRUE

MayStep(p) == IF pc[p] = "start" THEN running = NoTask ELSE running = p

----------------------------------------------------------------------------
(* Actions *)

Init ==
    /\ _session_todos = <<>>
    /\ pc = [p \in Tasks |-> "idle"]
    /\ op = [p \in Tasks |-> "none"]
    /\ ctx = [p \in Tasks |-> NoContext]
    /\ todos = [p \in Tasks |-> <<>>]
    /\ session_key = [p \in Tasks |-> ""]
    /\ validated_todos = [p \in Tasks |-> <<>>]
    /\ result = [p \in Tasks |-> <<>>]
    /\ running = NoTask
    /\ applied = <<>>
    /\ overlap = [p \in Tasks |-> {}]

InFlight(p) == pc[p] \notin {"idle", "done"}

\* the framework receives a write_todos request
CallWrite(p) ==
    /\ pc[p] = "idle"
    /\ \E c \in CallContexts, raw \in RawLists(CallEntries, MaxTodos) :
        /\ ctx' = [ctx EXCEPT ![p] = c]
        /\ todos' = [todos EXCEPT ![p] = raw]
    /\ op' = [op EXCEPT ![p] = "write"]
    /\ pc' = [pc EXCEPT ![p] = "start"]
    /\ overlap' = [overlap EXCEPT ![p] = {q \in Tasks \ {p} : InFlight(q)}]
    /\ UNCHANGED <<_session_todos, session_key, validated_todos, result,
                   running, applied>>

\* a caller asks for _get_todos(k)
CallGet(p) ==
    /\ pc[p] = "idle"
    /\ \E k \in SessionKeys : session_key' = [session_key EXCEPT ![p] = k]
    /\ op' = [op EXCEPT ![p] = "get"]
    /\ pc' = [pc EXCEPT ![p] = "start"]
    /\ overlap' = [overlap EXCEPT ![p] = {q \in Tasks \ {p} : InFlight(q)}]
    /\ UNCHANGED <<_session_todos, ctx, todos, validated_todos, result,
                   running, applied>>

\* line 73
WriteResolve(p) ==
    /\ op[p] = "write" /\ pc[p] = "start"
    /\ MayStep(p)
    /\ running' = p
    /\ session_key' = [session_key EXCEPT ![p] = _get_session_key(ctx[p])]
    /\ pc' = [pc EXCEPT ![p] = "validate"]
    /\ UNCHANGED <<_session_todos, op, ctx, todos, validated_todos, result,
                   applied, overlap>>

\* lines 75-94
WriteValidate(p) ==
    /\ op[p] = "write" /\ pc[p] = "validate"
    /\ MayStep(p)
    /\ validated_todos' = [validated_todos EXCEPT ![p] = ValidateTodos(todos[p])]
    /\ pc' = [pc EXCEPT ![p] = "store"]
    /\ UNCHANGED <<_session_todos, op, ctx, todos, session_key, result,
                   running, applied, overlap>>

\* line 96
WriteStore(p) ==
    /\ op[p] = "write" /\ pc[p] = "store"
    /\ MayStep(p)
    /\ _session_todos' = SetItem(_session_todos, session_key[p], validated_todos[p])
    /\ applied' = [x \in DOMAIN applied \cup {session_key[p]} |->
                      IF x = session_key[p] THEN todos[p] ELSE applied[x]]
    /\ pc' = [pc EXCEPT ![p] = "return"]
    /\ UNCHANGED <<op, ctx, todos, session_key, validated_todos, result,
                   running, overlap>>

\* line 97
WriteReturn(p) ==
    /\ op[p] = "write" /\ pc[p] = "return"
    /\ MayStep(p)
    /\ result' = [result EXCEPT ![p] = _format_todos(validated_todos[p])]
    /\ running' = NoTask
    /\ pc' = [pc EXCEPT ![p] = "done"]
    /\ UNCHANGED <<_session_todos, op, ctx, todos, session_key,
                   validated_todos, applied, overlap>>

\* line 26
GetCheck(p) ==
    /\ op[p] = "get" /\ pc[p] = "start"
    /\ MayStep(p)
    /\ running' = p
    /\ pc' = [pc EXCEPT ![p] =
                IF KeyMissing(_session_todos, session_key[p])
                THEN "create" ELSE "get_return"]
    /\ UNCHANGED <<_session_todos, op, ctx, todos, session_key,
                   validated_todos, result, applied, overlap>>

\* line 27
GetCreate(p) ==
    /\ op[p] = "get" /\ pc[p] = "create"
    /\ MayStep(p)
    /\ _session_todos' = CreateEmpty(_session_todos, session_key[p])
    /\ pc' = [pc EXCEPT ![p] = "get_return"]
    /\ UNCHANGED <<op, ctx, todos, session_key, validated_todos, result,
                   running, applied, overlap>>

\* line 28
GetReturn(p) ==
    /\ op[p] = "get" /\ pc[p] = "get_return"
    /\ MayStep(p)
    /\ result' = [result EXCEPT ![p] = _session_todos[session_key[p]]]
    /\ running' = NoTask
    /\ pc' = [pc EXCEPT ![p] = "done"]
    /\ UNCHANGED <<_session_todos, op, ctx, todos, session_key,
                   validated_todos, applied, overlap>>

\* the value is handed back to the caller and the call's frame is gone
Respond(p) ==
    /\ pc[p] = "done"
    /\ pc' = [pc EXCEPT ![p] = "idle"]
    /\ op' = [op EXCEPT ![p] = "none"]
    /\ ctx' = [ctx EXCEPT ![p] = NoContext]
    /\ todos' = [todos EXCEPT ![p] = <<>>]
    /\ session_key' = [session_key EXCEPT ![p] = ""]
    /\ validated_todos' = [validated_todos EXCEPT ![p] = <<>>]
    /\ result' = [result EXCEPT ![p] = <<>>]
    /\ overlap' = [q \in Tasks |-> IF q = p THEN {} ELSE overlap[q] \ {p}]
    /\ UNCHANGED <<_session_todos, running, applied>>

Next ==
    \E p \in Tasks :
        \/ CallWrite(p)
        \/ CallGet(p)
        \/ WriteResolve(p)
        \/ WriteValidate(p)
        \/ WriteStore(p)
        \/ WriteReturn(p)
        \/ GetCheck(p)
        \/ GetCreate(p)
        \/ GetReturn(p)
        \/ Respond(p)

Spec == Init /\ [][Next]_vars

----------------------------------------------------------------------------
(* A single write_todos call on a fresh server, any context, any raw list *)

InitFn ==
    /\ _session_todos = <<>>
    /\ pc = [p \in Tasks |-> IF p = "t1" THEN "start" ELSE "idle"]
    /\ op = [p \in Tasks |-> IF p = "t1" THEN "write" ELSE "none"]
    /\ \E c \in Contexts : ctx = [p \in Tasks |-> IF p = "t1" THEN c ELSE NoContext]
    /\ \E raw \in RawLists(FnEntries, MaxLen) :
          todos = [p \in Tasks |-> IF p = "t1" THEN raw ELSE <<>>]
    /\ session_key = [p \in Tasks |-> ""]
    /\ validated_todos = [p \in Tasks |-> <<>>]
    /\ result = [p \in Tasks |-> <<>>]
    /\ running = NoTask
    /\ applied = <<>>
    /\ overlap = [p \in Tasks |-> {}]

NextFn ==
    \E p \in Tasks :
        \/ WriteResolve(p)
        \/ WriteValidate(p)
        \/ WriteStore(p)
        \/ WriteReturn(p)

SpecFn == InitFn /\ [][NextFn]_vars

----------------------------------------------------------------------------
(* Vocabulary of the properties *)

\* the list stored for k, as a sequence of zero or one element
Lookup(d, k) == IF k \in DOMAIN d THEN <<d[k]>> ELSE <<>>

Elements(list) == {list[i] : i \in 1..Len(list)}

WriteDone(p) == op[p] = "write" /\ pc[p] = "done"

GetDone(p) == op[p] = "get" /\ pc[p] = "done"

WriteStep(p) ==
    WriteResolve(p) \/ WriteValidate(p) \/ WriteStore(p) \/ WriteReturn(p)

GetStep(p) == GetCheck(p) \/ GetCreate(p) \/ GetReturn(p)

\* the two calls were in flight at the same time
Concurrent(p, q) == q \in overlap[p] \/ p \in overlap[q]

NonEmptyText(v) == v.type = "str" /\ v.val # ""

\* the entry is a record with non-empty content
Survives(e) ==
    /\ e.type = "dict"
    /\ "content" \in DOMAIN e.val
    /\ NonEmptyText(e.val["content"])

Kept(raw) == SelectSeq(raw, Survives)

Validated(p) == op[p] = "write" /\ pc[p] \in {"store", "return", "done"}

----------------------------------------------------------------------------
(* C1: full replace, not merge. The list stored for a key is exactly the  *)
(* normalization of the raw list of the latest write applied to that key, *)
(* whatever was stored before, and a get on that key returns that list.   *)
C1_FullReplace ==
    /\ [](\A k \in DOMAIN applied :
            /\ k \in DOMAIN _session_todos
            /\ _session_todos[k] = ValidateTodos(applied[k]))
    /\ [][\A q \in Tasks :
            (GetReturn(q) /\ session_key[q] \in DOMAIN applied)
                => result'[q] = ValidateTodos(applied[session_key[q]])]_vars

\* q wrote A to k, then p wrote B to k: nothing of A is left
C1_Witness ==
    \E p, q \in Tasks :
        /\ p # q /\ WriteDone(p) /\ WriteDone(q)
        /\ session_key[p] = session_key[q]
        /\ applied[session_key[p]] = todos[p]
        /\ todos[q] # todos[p]
        /\ ValidateTodos(todos[q]) # <<>>
        /\ _session_todos[session_key[p]] # <<>>
        /\ Elements(ValidateTodos(todos[q]))
              \cap Elements(_session_todos[session_key[p]]) = {}

(* C2: session isolation. No step of a write_todos call changes the list  *)
(* stored for a key other than the call's own session key, nor creates    *)
(* or removes such a key.                                                 *)
C2_SessionIsolation ==
    [][\A p \in Tasks :
        WriteStep(p) =>
            \A k \in SessionKeys \ {_get_session_key(ctx[p])} :
                Lookup(_session_todos', k) = Lookup(_session_todos, k)]_vars

\* two sessions, each written, hold their own distinct non-empty lists
C2_Witness ==
    \E p, q \in Tasks :
        /\ WriteDone(p) /\ WriteDone(q)
        /\ session_key[p] # session_key[q]
        /\ _session_todos[session_key[p]] = ValidateTodos(todos[p])
        /\ _session_todos[session_key[q]] = ValidateTodos(todos[q])
        /\ ValidateTodos(todos[p]) # <<>>
        /\ ValidateTodos(todos[q]) # <<>>
        /\ ValidateTodos(todos[p]) # ValidateTodos(todos[q])

(* C3: every task of every stored list has non-empty content, a status in *)
(* {pending, in_progress, completed} and a non-empty activeForm.          *)
C3_StoredTasksNormalized ==
    \A k \in DOMAIN _session_todos :
        \A i \in 1..Len(_session_todos[k]) :
            LET t == _session_todos[k][i] IN
            /\ NonEmptyText(t.content)
            /\ t.status \in ValidStatuses
            /\ NonEmptyText(t.activeForm)

\* a write whose entry had an unknown status and an empty activeForm is stored
C3_Witness ==
    \E p \in Tasks :
        /\ WriteDone(p)
        /\ TaskT \in Elements(todos[p])
        /\ [content |-> Str("T"), activeForm |-> Str("T"), status |-> Str("pending")]
              \in Elements(_session_todos[session_key[p]])

(* C4: two write_todos calls on the same key are last-writer-wins with no *)
(* merge. Once both have completed the stored list is the normalization   *)
(* of the raw list of one of them, the one applied last; and while both   *)
(* are under way every change of the stored list sets it to the whole     *)
(* normalized list of one of the two, never a mixture or a part.          *)
C4_LastWriterWins ==
    /\ [](\A p, q \in Tasks :
            (p # q /\ WriteDone(p) /\ WriteDone(q) /\ session_key[p] = session_key[q])
            => /\ applied[session_key[p]] \in {todos[p], todos[q]}
               /\ _session_todos[session_key[p]]
                     = ValidateTodos(applied[session_key[p]]))
    /\ [][\A p, q \in Tasks :
            LET k == _get_session_key(ctx[p]) IN
            (/\ p # q
             /\ op[p] = "write" /\ op[q] = "write"
             /\ _get_session_key(ctx[q]) = k
             /\ Lookup(_session_todos', k) # Lookup(_session_todos, k))
            => _session_todos'[k]
                  \in {ValidateTodos(todos[p]), ValidateTodos(todos[q])}]_vars

\* p arrived while q was in flight, same key, different lists, both completed
C4_Witness ==
    \E p, q \in Tasks :
        /\ p # q /\ WriteDone(p) /\ WriteDone(q)
        /\ q \in overlap[p]
        /\ session_key[p] = session_key[q]
        /\ ValidateTodos(todos[p]) # <<>>
        /\ ValidateTodos(todos[q]) # <<>>
        /\ ValidateTodos(todos[p]) # ValidateTodos(todos[q])
        /\ applied[session_key[p]] = todos[q]
        /\ _session_todos[session_key[p]] = ValidateTodos(todos[q])

C9_EmptyRead ==
    /\ [](\A k \in DOMAIN _session_todos \ DOMAIN applied : _session_todos[k] = <<>>)
    /\ [][\A q \in Tasks :
            (GetReturn(q) /\ session_key[q] \notin DOMAIN applied)
            => /\ result'[q] = <<>>
               /\ _format_todos(result'[q]) = <<"Todo list is empty.">>
               /\ Lookup(_session_todos', session_key[q]) = << <<>> >>]_vars
    /\ [][\A q \in Tasks :
            GetStep(q)
            => /\ \A k \in SessionKeys \ {session_key[q]} :
                     Lookup(_session_todos', k) = Lookup(_session_todos, k)
               /\ \/ Lookup(_session_todos', session_key[q])
                        = Lookup(_session_todos, session_key[q])
                  \/ /\ Lookup(_session_todos, session_key[q]) = <<>>
                     /\ Lookup(_session_todos', session_key[q]) = << <<>> >>]_vars

\* two gets on a key never written both returned the empty list, while
\* another key keeps its non-empty list
C9_Witness ==
    \E p, q \in Tasks :
        /\ p # q /\ GetDone(p) /\ GetDone(q)
        /\ session_key[p] = session_key[q]
        /\ session_key[p] \notin DOMAIN applied
        /\ result[p] = <<>> /\ result[q] = <<>>
        /\ _session_todos[session_key[p]] = <<>>
        /\ \E k \in DOMAIN applied : _session_todos[k] # <<>>

(* C6: normalization is an order-preserving filter. The validated list    *)
(* holds one task for each raw entry that is a record with non-empty      *)
(* content, in input order, and nothing for the other entries.            *)
C6_OrderPreservingFilter ==
    \A p \in Tasks :
        Validated(p) =>
            LET v == validated_todos[p]
                kept == Kept(todos[p])
            IN  /\ Len(v) = Len(kept)
                /\ \A i \in 1..Len(v) : v[i].content = kept[i].val["content"]

\* entries are dropped before and between the entries that are kept
C6_Witness ==
    \E p \in Tasks :
        /\ WriteDone(p)
        /\ todos[p] = <<Junk, TaskA, EmptyContent, TaskB>>
        /\ Len(validated_todos[p]) = 2
        /\ validated_todos[p][1].content = Str("A")
        /\ validated_todos[p][2].content = Str("B")
        /\ _session_todos[session_key[p]] = validated_todos[p]

NumWithStatus(list, s) == Cardinality({i \in 1..Len(list) : list[i].status = Str(s)})

\* "{p} pending, {i} in progress, {c} completed"
CountsPhrase(list) ==
    ToString(NumWithStatus(list, "pending")) \o " pending, "
        \o ToString(NumWithStatus(list, "in_progress")) \o " in progress, "
        \o ToString(NumWithStatus(list, "completed")) \o " completed"

LastLine(text) == text[Len(text)]

IsExampleABCD(list) ==
    /\ Len(list) = 4
    /\ list[1].content = Str("A") /\ list[1].status = Str("pending")
    /\ list[2].content = Str("B") /\ list[2].status = Str("pending")
    /\ list[3].content = Str("C") /\ list[3].status = Str("in_progress")
    /\ list[4].content = Str("D") /\ list[4].status = Str("completed")

(* C8 as stated: for every non-empty normalized list the trailing summary *)
(* line of the formatted text is exactly                                  *)
(* "{p} pending, {i} in progress, {c} completed".                         *)
C8_SummaryLineIsBarePhrase ==
    \A p \in Tasks :
        (WriteDone(p) /\ validated_todos[p] # <<>>)
            => LastLine(result[p]) = CountsPhrase(validated_todos[p])

(* C8 as amended: for every non-empty normalized list the trailing line   *)
(* of the formatted text is exactly "Summary: " followed by               *)
(* "{p} pending, {i} in progress, {c} completed", p, i and c being the    *)
(* numbers of tasks with status pending, in_progress and completed; for   *)
(* the list A, B pending, C in_progress, D completed it is                *)
(* "Summary: 2 pending, 1 in progress, 1 completed".                      *)
C8_SummaryLine ==
    \A p \in Tasks :
        (WriteDone(p) /\ validated_todos[p] # <<>>)
            => /\ LastLine(result[p])
                     = "Summary: " \o CountsPhrase(validated_todos[p])
               /\ IsExampleABCD(validated_todos[p])
                     => LastLine(result[p])
                           = "Summary: 2 pending, 1 in progress, 1 completed"

\* the list A, B pending, C in_progress, D completed has been formatted
C8_Witness ==
    \E p \in Tasks :
        /\ WriteDone(p)
        /\ IsExampleABCD(validated_todos[p])
        /\ result[p] = <<"Todo List:", "1. [ ] A", "2. [ ] B", "3. [~] C",
                         "4. [x] D", "",
                         "Summary: 2 pending, 1 in progress, 1 completed">>

\* the key the resolver is to return for a context
ExpectedKey(c) ==
    IF NonEmptyText(c.session_id) THEN c.session_id.val
    ELSE IF NonEmptyText(c.client_id) THEN c.client_id.val
    ELSE "default"

(* C10: the session resolver returns a non-empty key: the session         *)
(* identifier when it is present and non-empty, otherwise the client      *)
(* identifier when it is present and non-empty, otherwise "default"; and  *)
(* resolving the key stores nothing.                                      *)
C10_SessionKey ==
    \A p \in Tasks :
        (op[p] = "write" /\ pc[p] \notin {"idle", "start"})
            => /\ session_key[p] = ExpectedKey(ctx[p])
               /\ session_key[p] # ""
               /\ pc[p] \in {"validate", "store"} => DOMAIN _session_todos = {}

\* an empty session identifier falls through to the client identifier
C10_Witness ==
    \E p \in Tasks :
        /\ op[p] = "write" /\ pc[p] = "validate"
        /\ ctx[p] = [session_id |-> Str(""), client_id |-> Str("c1")]
        /\ session_key[p] = "c1"

====
